---- MODULE Spec2Model ----
(***************************************************************************)
(* Lifecycle of CSharpExecutorProxy                                        *)
(* (promptflow/batch/_csharp_executor_proxy.py): create(), the startup     *)
(* synchronization it awaits, the registry of streamed responses, and      *)
(* destroy().  One proxy, one service process (launched by the proxy, or   *)
(* an already running service addressed by a caller-supplied port).        *)
(*                                                                         *)
(* ensure_executor_startup, _all_generators_exhausted and the registry of  *)
(* stream consumers belong to the base class, which is not part of the     *)
(* source file; they are modelled from sections 3, 4.3 and 4.4 of the      *)
(* specification.                                                          *)
(***************************************************************************)
EXTENDS Naturals, Sequences, FiniteSets

\* ---------------------------------------------------------------- bounds
MaxPort == 2            \* ports are 1..MaxPort
MaxHandles == 2         \* stream-consumer handles are 1..MaxHandles
MaxWait == 2            \* poll cycles before the startup wait times out
MaxDestroy == 2         \* destroy() calls in one behaviour
MaxAlloc == 5           \* find_available_port() calls in one behaviour

Ports == 1..MaxPort
HandleIds == 1..MaxHandles
None == "None"
\* kwargs.get("port", None): no port
NoPort == 0

VARIABLES
    cpc,            \* position of create(): init, touched, launched, sync, finally, returned, raised
    portArg,        \* kwargs.get("port", None)
    file,           \* init_error_file: absent, empty, nonempty
    process,        \* self._process: None or Popen
    procState,      \* the launched OS process: none, running, killed, exited
    honors,         \* whether the launched process exits on the graceful signal
    platform,       \* platform.system(): Windows or Linux
    port,           \* self._port
    launchPort,     \* the port given to _construct_service_startup_command
    chat_output_name,
    reachable,      \* whether the service endpoint answers the liveness probe
    polls,          \* poll cycles of the startup synchronization so far
    lastPoll,       \* what the most recent poll cycle observed
    syncResult,     \* none, ok, StartupFailure, StartupTimeout
    createError,    \* what create() raised: none, launch, lookup, StartupFailure, StartupTimeout
    errWrittenAt,   \* position of create() when the service wrote the error file
    handles,        \* outstanding stream-consumer handles
    dpc,            \* position of destroy(): idle, checked, waiting
    destroys,       \* destroy() calls so far
    lastDestroy,    \* outcome of the latest destroy(): none, pending, busy, noop, graceful, killed
    sent,           \* signals sent to the launched process, in order
    waits,          \* completed grace waits (Popen.wait(timeout=5))
    bound,          \* ports of localhost that some socket has bound
    sock,           \* port of the open probing socket of find_available_port, or NoPort
    found           \* what the calls of find_available_port returned, in order

vars == <<cpc, portArg, file, process, procState, honors, platform, port, launchPort,
          chat_output_name, reachable, polls, lastPoll, syncResult, createError,
          errWrittenAt, handles, dpc, destroys, lastDestroy, sent, waits,
          bound, sock, found>>

createVars == <<cpc, portArg, file, process, port, launchPort, chat_output_name,
                polls, lastPoll, syncResult, createError>>
destroyVars == <<dpc, destroys, lastDestroy, sent, waits>>
allocVars == <<bound, sock, found>>
proxyVars == <<cpc, portArg, file, process, procState, honors, platform, port,
               launchPort, chat_output_name, reachable, polls, lastPoll, syncResult,
               createError, errWrittenAt, handles, dpc, destroys, lastDestroy, sent,
               waits>>

\* ------------------------------------------------------------- constants
EXECUTOR_SERVICE_DOMAIN == "http://localhost:"

\* api_endpoint: EXECUTOR_SERVICE_DOMAIN + self.port
api_endpoint == <<EXECUTOR_SERVICE_DOMAIN, port>>

\* ---------------------------------------------------------------- Init
ProxyInit ==
    /\ cpc = "init"
    /\ portArg = NoPort
    /\ file = "absent"
    /\ process = None
    /\ procState = "none"
    /\ honors \in BOOLEAN
    /\ platform \in {"Windows", "Linux"}
    /\ port = NoPort
    /\ launchPort = NoPort
    /\ chat_output_name = None
    /\ reachable = FALSE
    /\ polls = 0
    /\ lastPoll = [file |-> "none", probe |-> FALSE]
    /\ syncResult = "none"
    /\ createError = "none"
    /\ errWrittenAt = "never"
    /\ handles = {}
    /\ dpc = "idle"
    /\ destroys = 0
    /\ lastDestroy = "none"
    /\ sent = <<>>
    /\ waits = 0

\* no call of find_available_port is under way
AllocIdle ==
    /\ sock = NoPort
    /\ found = <<>>

Init ==
    /\ ProxyInit
    /\ AllocIdle
    /\ bound = {}

\* ------------------------------------------------------------- create()
\* lines 108-111: read the port argument, touch the init error file
create_touch(p) ==
    /\ cpc = "init"
    /\ portArg' = p
    /\ file' = "empty"
    /\ cpc' = "touched"
    /\ UNCHANGED <<process, procState, honors, platform, port, launchPort,
                   chat_output_name, reachable, polls, lastPoll, syncResult,
                   createError, errWrittenAt, handles>>
    /\ UNCHANGED destroyVars
    /\ UNCHANGED allocVars

\* find_available_port: bind port 0 on localhost, read back the assigned port
find_available_port == Ports

\* a create() that asks for a second port after the service was started
create_launch_two_ports ==
    /\ cpc = "touched"
    /\ portArg = NoPort
    /\ \E p \in find_available_port, q \in find_available_port :
          /\ launchPort' = p
          /\ port' = q
    /\ process' = "Popen"
    /\ procState' = "running"
    /\ cpc' = "launched"
    /\ UNCHANGED <<portArg, file, honors, platform, chat_output_name, reachable,
                   polls, lastPoll, syncResult, createError, errWrittenAt, handles>>
    /\ UNCHANGED destroyVars
    /\ UNCHANGED allocVars

\* lines 113-124: no port given, allocate one and start the service
create_launch ==
    /\ cpc = "touched"
    /\ portArg = NoPort
    /\ \E p \in find_available_port :
          /\ port' = p
          /\ launchPort' = p
    /\ process' = "Popen"
    /\ procState' = "running"
    /\ cpc' = "launched"
    /\ UNCHANGED <<portArg, file, honors, platform, chat_output_name, reachable,
                   polls, lastPoll, syncResult, createError, errWrittenAt, handles>>
    /\ UNCHANGED destroyVars
    /\ UNCHANGED allocVars

\* lines 115-124: find_available_port or subprocess.Popen raises OSError
create_launch_raises ==
    /\ cpc = "touched"
    /\ portArg = NoPort
    /\ cpc' = "raised"
    /\ createError' = "launch"
    /\ UNCHANGED <<portArg, file, process, procState, honors, platform, port,
                   launchPort, chat_output_name, reachable, polls, lastPoll,
                   syncResult, errWrittenAt, handles>>
    /\ UNCHANGED destroyVars
    /\ UNCHANGED allocVars

\* lines 125-127: a port was given, the service is assumed to be started
create_attach ==
    /\ cpc = "touched"
    /\ portArg # NoPort
    /\ port' = portArg
    /\ process' = None
    /\ cpc' = "launched"
    /\ UNCHANGED <<portArg, file, procState, honors, platform, launchPort,
                   chat_output_name, reachable, polls, lastPoll, syncResult,
                   createError, errWrittenAt, handles>>
    /\ UNCHANGED destroyVars
    /\ UNCHANGED allocVars

\* a create() that skips the startup synchronization when a port is supplied
create_construct_skip ==
    /\ cpc = "launched"
    /\ \E c \in {None, "answer"} : chat_output_name' = c
    /\ IF portArg = NoPort
       THEN /\ cpc' = "sync"
            /\ UNCHANGED file
       ELSE /\ cpc' = "returned"
            /\ file' = "absent"
    /\ UNCHANGED <<portArg, process, procState, honors, platform, port, launchPort,
                   reachable, polls, lastPoll, syncResult, createError,
                   errWrittenAt, handles>>
    /\ UNCHANGED destroyVars
    /\ UNCHANGED allocVars

\* a create() that unlinks the init error file before it awaits the startup
create_construct_unlink_first ==
    /\ cpc = "launched"
    /\ \E c \in {None, "answer"} : chat_output_name' = c
    /\ cpc' = "sync"
    /\ file' = "absent"
    /\ UNCHANGED <<portArg, process, procState, honors, platform, port,
                   launchPort, reachable, polls, lastPoll, syncResult, createError,
                   errWrittenAt, handles>>
    /\ UNCHANGED destroyVars
    /\ UNCHANGED allocVars

\* lines 129-146: outputs definition, chat output name, the proxy object; then
\* ensure_executor_startup is awaited, whether or not a port was given
create_construct ==
    /\ cpc = "launched"
    /\ \E c \in {None, "answer"} : chat_output_name' = c
    /\ cpc' = "sync"
    /\ UNCHANGED <<portArg, file, process, procState, honors, platform, port,
                   launchPort, reachable, polls, lastPoll, syncResult, createError,
                   errWrittenAt, handles>>
    /\ UNCHANGED destroyVars
    /\ UNCHANGED allocVars

\* a create() that kills the service it started when the lookup fails
create_lookup_raises_kill ==
    /\ cpc = "launched"
    /\ cpc' = "raised"
    /\ createError' = "lookup"
    /\ IF procState = "running"
       THEN /\ sent' = Append(sent, "SIGKILL")
            /\ procState' = "killed"
       ELSE UNCHANGED <<sent, procState>>
    /\ UNCHANGED <<portArg, file, process, honors, platform, port,
                   launchPort, chat_output_name, reachable, polls, lastPoll,
                   syncResult, errWrittenAt, handles>>
    /\ UNCHANGED <<dpc, destroys, lastDestroy, waits>>
    /\ UNCHANGED allocVars

\* lines 129, 92-95: get_outputs_definition raises (the flow file does not load)
create_lookup_raises ==
    /\ cpc = "launched"
    /\ cpc' = "raised"
    /\ createError' = "lookup"
    /\ UNCHANGED <<portArg, file, process, procState, honors, platform, port,
                   launchPort, chat_output_name, reachable, polls, lastPoll,
                   syncResult, errWrittenAt, handles>>
    /\ UNCHANGED destroyVars
    /\ UNCHANGED allocVars

\* One poll cycle of the startup synchronization (specification 4.3): the
\* failure signal first, then the success signal, then the maximum wait.
PollOutcome(f, probeOk, n) ==
    IF f = "nonempty" THEN "StartupFailure"
    ELSE IF probeOk THEN "ok"
    ELSE IF n >= MaxWait THEN "StartupTimeout"
    ELSE "wait"

\* ensure_executor_startup(init_error_file): one poll cycle per step
ensure_executor_startup ==
    /\ cpc = "sync"
    /\ polls' = polls + 1
    /\ lastPoll' = [file |-> file, probe |-> reachable]
    /\ LET r == PollOutcome(file, reachable, polls + 1) IN
          IF r = "wait"
          THEN UNCHANGED <<cpc, syncResult>>
          ELSE /\ syncResult' = r
               /\ cpc' = "finally"
    /\ UNCHANGED <<portArg, file, process, procState, honors, platform, port,
                   launchPort, chat_output_name, reachable, createError,
                   errWrittenAt, handles>>
    /\ UNCHANGED destroyVars
    /\ UNCHANGED allocVars

\* a create() that swallows the startup error and returns the proxy anyway
CreateOutcomeSwallow(r) == "returned"

\* a create() that starts over when the startup failed
CreateOutcomeRetry(r) == IF r = "ok" THEN "returned" ELSE "touched"

\* lines 145-149: the exception of ensure_executor_startup propagates through
\* the finally clause; return executor_proxy is reached only without one
CreateOutcome(r) == IF r = "ok" THEN "returned" ELSE "raised"

\* lines 147-149: unlink the init error file, then return or re-raise
create_finally ==
    /\ cpc = "finally"
    /\ file' = "absent"
    /\ cpc' = CreateOutcome(syncResult)
    /\ createError' = IF syncResult = "ok" THEN createError ELSE syncResult
    /\ UNCHANGED <<portArg, process, procState, honors, platform, port, launchPort,
                   chat_output_name, reachable, polls, lastPoll, syncResult,
                   errWrittenAt, handles>>
    /\ UNCHANGED destroyVars
    /\ UNCHANGED allocVars

\* -------------------------------------------------- the service process
\* the launched service reports an initialization error in the file it was given
ServiceWritesError ==
    /\ procState = "running"
    /\ file = "empty"
    /\ file' = "nonempty"
    /\ errWrittenAt' = cpc
    /\ UNCHANGED <<cpc, portArg, process, procState, honors, platform, port,
                   launchPort, chat_output_name, reachable, polls, lastPoll,
                   syncResult, createError, handles>>
    /\ UNCHANGED destroyVars
    /\ UNCHANGED allocVars

\* the endpoint starts answering: the launched process, or the service the
\* caller named by its port
ServiceUp ==
    /\ ~reachable
    /\ \/ procState = "running"
       \/ portArg # NoPort
    /\ reachable' = TRUE
    /\ UNCHANGED <<createVars, procState, honors, platform, errWrittenAt, handles>>
    /\ UNCHANGED destroyVars
    /\ UNCHANGED allocVars

ServiceDown ==
    /\ reachable
    /\ reachable' = FALSE
    /\ UNCHANGED <<createVars, procState, honors, platform, errWrittenAt, handles>>
    /\ UNCHANGED destroyVars
    /\ UNCHANGED allocVars

\* the launched process exits on its own
ProcessExits ==
    /\ procState = "running"
    /\ procState' = "exited"
    /\ reachable' = FALSE
    /\ UNCHANGED <<createVars, honors, platform, errWrittenAt, handles>>
    /\ UNCHANGED destroyVars
    /\ UNCHANGED allocVars

GracefulSignals == {"CTRL_C_EVENT", "SIGTERM"}

Signalled == \E i \in 1..Len(sent) : sent[i] \in GracefulSignals

\* a process that honors the graceful signal exits within the grace period
ProcessHonorsSignal ==
    /\ procState = "running"
    /\ honors
    /\ Signalled
    /\ procState' = "exited"
    /\ reachable' = FALSE
    /\ UNCHANGED <<createVars, honors, platform, errWrittenAt, handles>>
    /\ UNCHANGED destroyVars
    /\ UNCHANGED allocVars

\* SIGKILL takes effect: the killed process ends and can be reaped
OsReaps ==
    /\ procState = "killed"
    /\ procState' = "exited"
    /\ reachable' = FALSE
    /\ UNCHANGED <<createVars, honors, platform, errWrittenAt, handles>>
    /\ UNCHANGED destroyVars
    /\ UNCHANGED allocVars

\* ------------------------------------------------------ stream consumers
\* a streaming call begins: its generator is registered
StreamBegin(h) ==
    /\ cpc = "returned"
    /\ reachable
    /\ h \notin handles
    /\ handles' = handles \cup {h}
    /\ UNCHANGED <<createVars, procState, honors, platform, reachable, errWrittenAt>>
    /\ UNCHANGED destroyVars
    /\ UNCHANGED allocVars

\* the caller drains or abandons the streamed response
StreamEnd(h) ==
    /\ h \in handles
    /\ handles' = handles \ {h}
    /\ UNCHANGED <<createVars, procState, honors, platform, reachable, errWrittenAt>>
    /\ UNCHANGED destroyVars
    /\ UNCHANGED allocVars

\* ------------------------------------------------------------ destroy()
\* self._all_generators_exhausted()
all_generators_exhausted == handles = {}

\* an _is_executor_active that never polls the process
is_executor_active_always == TRUE

\* self._is_executor_active(): True without a process, else poll() is None
is_executor_active ==
    IF process = None THEN TRUE ELSE procState \in {"running", "killed"}

\* a destroy() that goes on although a streamed response is outstanding
DrainCheckIgnored(exhausted) == "checked"

\* lines 166-170: raise unless every generator is exhausted
DrainCheck(exhausted) == IF exhausted THEN "checked" ELSE "busy"

destroy_check ==
    /\ cpc = "returned"
    /\ dpc = "idle"
    /\ destroys < MaxDestroy
    /\ destroys' = destroys + 1
    /\ IF DrainCheck(all_generators_exhausted) = "busy"
       THEN /\ lastDestroy' = "busy"
            /\ dpc' = "idle"
       ELSE /\ lastDestroy' = "pending"
            /\ dpc' = "checked"
    /\ UNCHANGED <<createVars, procState, honors, platform, reachable, errWrittenAt,
                   handles, sent, waits>>
    /\ UNCHANGED allocVars

\* a guard that asks only whether the service is active
ShouldTerminateActiveOnly == is_executor_active

\* a guard that asks only whether the proxy owns a process
ShouldTerminateOwned == process # None

\* line 174: self._process and self._is_executor_active()
ShouldTerminate == process # None /\ is_executor_active

\* a destroy() that terminates the same way on every platform
GracefulSignalTerminate(os) == "SIGTERM"

\* lines 175-180: CTRL_C_EVENT on Windows, terminate() (SIGTERM) elsewhere
GracefulSignal(os) == IF os = "Windows" THEN "CTRL_C_EVENT" ELSE "SIGTERM"

\* lines 174-180: request graceful termination of an owned, running process
destroy_terminate ==
    /\ dpc = "checked"
    /\ IF ShouldTerminate
       THEN /\ sent' = Append(sent, GracefulSignal(platform))
            /\ dpc' = "waiting"
            /\ UNCHANGED lastDestroy
       ELSE /\ dpc' = "idle"
            /\ lastDestroy' = "noop"
            /\ UNCHANGED sent
    /\ UNCHANGED <<createVars, procState, honors, platform, reachable, errWrittenAt,
                   handles, destroys, waits>>
    /\ UNCHANGED allocVars

\* lines 181-182: wait(timeout=5) returns, the process has exited
destroy_wait_returns ==
    /\ dpc = "waiting"
    /\ procState = "exited"
    /\ waits' = waits + 1
    /\ dpc' = "idle"
    /\ lastDestroy' = "graceful"
    /\ UNCHANGED <<createVars, procState, honors, platform, reachable, errWrittenAt,
                   handles, destroys, sent>>
    /\ UNCHANGED allocVars

\* a wait that gives the process no time at all
TimeoutExpiredAtOnce == procState = "running"

\* a wait() without a timeout
TimeoutNever == FALSE

\* a kill() that follows the wait whether or not it timed out
TimeoutExpiredAlways == TRUE

\* line 183: the process is still running when the five seconds are over
TimeoutExpired == procState = "running" /\ ~honors

\* lines 183-184: TimeoutExpired, kill() and return
destroy_wait_timeout ==
    /\ dpc = "waiting"
    /\ TimeoutExpired
    /\ waits' = waits + 1
    /\ sent' = Append(sent, "SIGKILL")
    /\ procState' = "killed"
    /\ dpc' = "idle"
    /\ lastDestroy' = "killed"
    /\ UNCHANGED <<createVars, honors, platform, reachable, errWrittenAt,
                   handles, destroys>>
    /\ UNCHANGED allocVars

\* ------------------------------------------------- find_available_port()
\* line 200: bind(("localhost", 0)), the OS assigns a port no socket has bound
OsAssigns(b) == Ports \ b

\* lines 199-200: open the probing socket and bind it to port 0
alloc_bind ==
    /\ sock = NoPort
    /\ Len(found) < MaxAlloc
    /\ \E p \in OsAssigns(bound) :
          /\ sock' = p
          /\ bound' = bound \cup {p}
    /\ UNCHANGED found
    /\ UNCHANGED proxyVars

\* a find_available_port that returns with its probing socket still open
alloc_return_open ==
    /\ sock # NoPort
    /\ found' = Append(found, sock)
    /\ sock' = NoPort
    /\ UNCHANGED bound
    /\ UNCHANGED proxyVars

\* lines 201-202: getsockname(), return str(port); leaving the with block
\* closes the socket, which releases the port
alloc_return ==
    /\ sock # NoPort
    /\ found' = Append(found, sock)
    /\ bound' = bound \ {sock}
    /\ sock' = NoPort
    /\ UNCHANGED proxyVars

\* calls of find_available_port in sequence, nothing else binding in between
AllocNext ==
    \/ alloc_bind
    \/ alloc_return

\* some ports of localhost are taken by others, at least one is free
AllocInit ==
    /\ ProxyInit
    /\ ~honors
    /\ platform = "Linux"
    /\ AllocIdle
    /\ bound \in SUBSET Ports
    /\ bound # Ports

AllocSpec == AllocInit /\ [][AllocNext]_vars

\* -------------------------------------------------------- specification
Next ==
    \/ \E p \in Ports \cup {NoPort} : create_touch(p)
    \/ create_launch
    \/ create_launch_raises
    \/ create_attach
    \/ create_construct
    \/ create_lookup_raises
    \/ ensure_executor_startup
    \/ create_finally
    \/ ServiceWritesError
    \/ ServiceUp
    \/ ServiceDown
    \/ ProcessExits
    \/ ProcessHonorsSignal
    \/ OsReaps
    \/ \E h \in HandleIds : StreamBegin(h)
    \/ \E h \in HandleIds : StreamEnd(h)
    \/ destroy_check
    \/ destroy_terminate
    \/ destroy_wait_returns
    \/ destroy_wait_timeout

Spec == Init /\ [][Next]_vars

\* a step of create() once it has been called
create_step ==
    \/ create_launch
    \/ create_launch_raises
    \/ create_attach
    \/ create_construct
    \/ create_lookup_raises
    \/ ensure_executor_startup
    \/ create_finally

\* the event loop keeps running a create() that has been called: none of its
\* steps waits for anything but the poll interval
FairSpec == Spec /\ WF_vars(create_step)

\* a step of destroy() once its drain check has passed
destroy_step ==
    \/ destroy_terminate
    \/ destroy_wait_returns
    \/ destroy_wait_timeout

\* destroy() runs on after its drain check (nothing in lines 174-184 awaits);
\* a process that honors the graceful signal exits within the grace period,
\* and a killed process ends
DestroyFairSpec ==
    /\ Spec
    /\ WF_vars(destroy_step)
    /\ WF_vars(ProcessHonorsSignal)
    /\ WF_vars(OsReaps)

\* the lifecycle state of section 3
Lifecycle ==
    IF cpc = "init" THEN "Created"
    ELSE IF cpc = "raised" THEN "Failed"
    ELSE IF cpc # "returned" THEN "Starting"
    ELSE IF lastDestroy \in {"noop", "graceful", "killed"} THEN "Destroyed"
    ELSE IF dpc # "idle" THEN "Destroying"
    ELSE IF handles # {} THEN "Active"
    ELSE "Ready"

\* ---------------------------------------------------------------- claims

\* C1: the proxy never sends a graceful signal or a kill to its service
\* process while a stream-consumer handle is outstanding, whatever the
\* interleaving of stream starts and ends with destroy().
C1_NoSignalWhileStreaming == [][sent' # sent => handles = {}]_vars

\* C2: a destroy() called while stream-consumer handles are registered fails
\* at once with the busy error, sends nothing, waits for nothing and leaves
\* the process, its handle and the set of handles as they were.
C2_BusyDestroyRejected ==
    [][(destroys' = destroys + 1 /\ handles # {}) =>
          /\ lastDestroy' = "busy"
          /\ dpc' = "idle"
          /\ sent' = sent
          /\ waits' = waits
          /\ procState' = procState
          /\ process' = process
          /\ handles' = handles
          /\ cpc' = cpc]_vars

C2_Witness ==
    /\ lastDestroy = "busy"
    /\ dpc = "idle"
    /\ handles # {}
    /\ process = "Popen"
    /\ procState = "running"
    /\ sent = <<>>

\* C3: once create() has returned or raised, for whichever reason, the init
\* error file it made is gone.
C3_ErrorFileRemoved == cpc \in {"returned", "raised"} => file = "absent"

\* C4: when the service writes the init error file while the startup
\* synchronization has not yet seen a successful probe, create() raises the
\* startup failure and returns no proxy, however reachable the service is
\* afterwards; a file written after the wait has already timed out changes
\* nothing of that failure either.
C4_ErrorBeforeProbeFails ==
    /\ errWrittenAt \in {"launched", "sync"} =>
          /\ cpc # "returned"
          /\ syncResult \in {"none", "StartupFailure"}
          /\ cpc = "raised" => createError \in {"StartupFailure", "lookup"}
    /\ (errWrittenAt = "finally" /\ syncResult # "ok") =>
          /\ cpc # "returned"
          /\ cpc = "raised" => createError = syncResult

C4_Witness ==
    /\ errWrittenAt = "sync"
    /\ cpc = "raised"
    /\ createError = "StartupFailure"
    /\ polls > 1
    /\ reachable

\* C5: a poll cycle that sees both the init error file non-empty and the
\* endpoint answering the probe ends the startup in failure, never in Ready.
C5_FailureHasPriority ==
    (lastPoll.file = "nonempty" /\ lastPoll.probe) =>
        /\ syncResult = "StartupFailure"
        /\ cpc \in {"finally", "raised"}
        /\ cpc = "raised" => createError = "StartupFailure"

C5_Witness ==
    /\ lastPoll.file = "nonempty"
    /\ lastPoll.probe
    /\ cpc = "raised"
    /\ file = "absent"

\* C6: the startup synchronization ends: a create() that is Starting, in its
\* poll loop or before it, always comes to return (Ready) or raise (Failed),
\* and a wait that runs out with neither signal seen raises the timeout error
\* and returns no proxy.
C6_StartupTerminates ==
    /\ (Lifecycle = "Starting") ~> (cpc \in {"returned", "raised"})
    /\ [](/\ polls = MaxWait
          /\ lastPoll.file = "empty"
          /\ ~lastPoll.probe
          => /\ syncResult = "StartupTimeout"
             /\ cpc \in {"finally", "raised"}
             /\ cpc = "raised" => createError = "StartupTimeout")

C6_Witness ==
    /\ cpc = "raised"
    /\ createError = "StartupTimeout"
    /\ polls = MaxWait
    /\ process = "Popen"

\* C7 as stated: with a port supplied no poll cycle runs and create() cannot
\* fail with a startup failure or a startup timeout.
C7_NoSyncWithPort ==
    portArg # NoPort =>
        /\ polls = 0
        /\ createError \notin {"StartupFailure", "StartupTimeout"}

\* C7, amended: with a port supplied no process is launched, yet the startup
\* synchronization still runs against that port: create() returns the proxy
\* only after a poll cycle whose probe succeeded, and a wait that runs out
\* without one raises the startup timeout.
C7_SyncRunsWithPort ==
    portArg # NoPort =>
        /\ process = None
        /\ procState = "none"
        /\ cpc = "returned" => (polls >= 1 /\ lastPoll.probe /\ syncResult = "ok")
        /\ (cpc \in {"finally", "raised"} /\ polls = MaxWait /\ ~lastPoll.probe) =>
               syncResult = "StartupTimeout"

C7_Witness ==
    /\ portArg # NoPort
    /\ cpc = "raised"
    /\ createError = "StartupTimeout"
    /\ polls = MaxWait

\* C8: with a port supplied no process is ever launched and the handle is
\* absent; destroy() sends no signal, waits for nothing and kills nothing, and
\* with no handle outstanding it ends as a no-op.
C8_BorrowedNeverSignalled ==
    portArg # NoPort =>
        /\ process = None
        /\ procState = "none"
        /\ launchPort = NoPort
        /\ sent = <<>>
        /\ waits = 0
        /\ dpc # "waiting"
        /\ lastDestroy \in {"none", "pending", "busy", "noop"}

C8_Witness ==
    /\ portArg # NoPort
    /\ cpc = "returned"
    /\ lastDestroy = "noop"
    /\ handles = {}
    /\ reachable

\* C9: a destroy() that had to force-kill the process leaves it observed as
\* exited when it completes.
C9_KilledIsExited == lastDestroy = "killed" => procState = "exited"

\* C10: for a process that honors the graceful signal, a destroy() that asked
\* it to stop ends with the process exited within the grace wait, without a
\* kill, and the proxy Destroyed.
C10_GracefulExit ==
    (honors /\ process = "Popen" /\ lastDestroy \in {"graceful", "killed"}) =>
        /\ lastDestroy = "graceful"
        /\ procState = "exited"
        /\ \A i \in 1..Len(sent) : sent[i] \in GracefulSignals
        /\ waits >= 1
        /\ Lifecycle = "Destroyed"

C10_Witness ==
    /\ honors
    /\ lastDestroy = "graceful"
    /\ procState = "exited"
    /\ Signalled
    /\ handles = {}

\* C11 as stated: the ports returned by calls of the allocator in sequence
\* are pairwise distinct.
C11_PairwiseDistinct ==
    \A i, j \in 1..Len(found) : i # j => found[i] # found[j]

\* C11, amended: each call returns a port that no socket had bound at the
\* instant of the call, and has released its probing socket when it returns;
\* calls in sequence may therefore return the same port again.
C11_FreeWhenAllocated ==
    [][/\ (sock = NoPort /\ sock' # NoPort) => (sock' \in Ports /\ sock' \notin bound)
       /\ Len(found') > Len(found) =>
             /\ found' = Append(found, sock)
             /\ sock \notin bound'
             /\ sock' = NoPort]_vars

C11_Witness ==
    /\ Len(found) >= 2
    /\ found[1] = found[2]
    /\ sock = NoPort
    /\ found[1] \notin bound

\* C12: the proxy that create() returns has the endpoint
\* http://localhost:<port>, <port> being the supplied port when one was given
\* and otherwise the allocated port the service was started with; the port
\* never changes afterwards.
C12_EndpointPort ==
    /\ [](cpc = "returned" =>
            /\ port \in Ports
            /\ api_endpoint = <<"http://localhost:",
                                IF portArg # NoPort THEN portArg ELSE launchPort>>
            /\ portArg = NoPort => (process = "Popen" /\ launchPort \in find_available_port)
            /\ portArg # NoPort => launchPort = NoPort)
    /\ [][cpc = "returned" => port' = port]_vars

C12_Witness ==
    /\ cpc = "returned"
    /\ portArg = NoPort
    /\ api_endpoint = <<"http://localhost:", launchPort>>
    /\ launchPort = MaxPort
    /\ lastDestroy = "graceful"

\* the signals of the set k among those sent
CountSent(k) == Cardinality({i \in 1..Len(sent) : sent[i] \in k})

\* C13: destroy() runs to completion: once its drain check has passed it ends,
\* after at most one graceful request, one grace wait and one kill for each
\* call; the busy error is raised at the drain check and nowhere later.
C13_DestroyCompletes ==
    /\ (dpc # "idle") ~> (dpc = "idle")
    /\ [](/\ CountSent(GracefulSignals) <= destroys
          /\ CountSent({"SIGKILL"}) <= destroys
          /\ waits <= destroys
          /\ dpc = "idle" => waits = CountSent(GracefulSignals))
    /\ [][lastDestroy' = "busy" => (dpc = "idle" /\ dpc' = "idle")]_vars

C13_Witness ==
    /\ dpc = "idle"
    /\ destroys = 1
    /\ lastDestroy = "killed"
    /\ Len(sent) = 2
    /\ waits = 1

\* C14 as stated: Failed and Destroyed have no outgoing transition.
C14_TerminalStates ==
    [][(Lifecycle \in {"Failed", "Destroyed"}) => (Lifecycle' = Lifecycle)]_vars

\* C14, amended: Failed is terminal and nothing is done with the failed proxy;
\* the service process is started at most once, by create() before its startup
\* synchronization, and never again after it was killed or has exited; a
\* destroyed proxy never goes back to Starting, but it does take further
\* destroy() calls.
C14_OneShot ==
    [][/\ cpc = "raised" =>
             /\ cpc' = "raised"
             /\ UNCHANGED <<process, port, launchPort, handles, destroyVars>>
       /\ (procState' = "running" /\ procState # "running") =>
             (procState = "none" /\ cpc = "touched")
       /\ process' # process => (process = None /\ cpc = "touched")
       /\ cpc = "returned" => cpc' = "returned"]_vars

C14_Witness ==
    /\ Lifecycle = "Failed"
    /\ createError = "StartupTimeout"
    /\ process = "Popen"
    /\ procState = "exited"

\* C15: a create() that fails after the service process was started, by a
\* startup failure, a startup timeout or a failed lookup of the outputs
\* definition, sends that process no signal and no kill: the step that raises
\* leaves the process as it was, and no proxy is returned.
C15_FailedCreateLeavesProcess ==
    /\ [](cpc = "raised" =>
            /\ sent = <<>>
            /\ waits = 0
            /\ destroys = 0
            /\ dpc = "idle"
            /\ procState # "killed")
    /\ [][cpc' # cpc => (procState' = procState \/ cpc = "touched")]_vars

C15_Witness ==
    /\ cpc = "raised"
    /\ createError = "StartupFailure"
    /\ process = "Popen"
    /\ procState = "running"
    /\ reachable

\* C16: a destroy() that finds the owned process already exited ends as a
\* no-op, with no graceful signal, no grace wait and no kill; a graceful
\* signal is sent only to an owned process that poll() reports as not exited.
C16_ExitedProcessNotSignalled ==
    [][/\ (dpc = "checked" /\ dpc' # dpc /\ procState = "exited") =>
             /\ dpc' = "idle"
             /\ lastDestroy' = "noop"
             /\ sent' = sent
             /\ waits' = waits
             /\ procState' = procState
       /\ (dpc = "checked" /\ sent' # sent) =>
             /\ process = "Popen"
             /\ procState \in {"running", "killed"}
             /\ dpc' = "waiting"]_vars

C16_Witness ==
    /\ lastDestroy = "noop"
    /\ process = "Popen"
    /\ procState = "exited"
    /\ sent = <<>>
    /\ waits = 0
    /\ handles = {}

\* C17: the init error file exists and is empty when the service process is
\* started, it is unlinked only by create()'s finally clause after the startup
\* synchronization has ended, it stays gone, and no poll cycle reads it after
\* that.
C17_ErrorFileWindow ==
    [][/\ (procState = "none" /\ procState' = "running") =>
             (file = "empty" /\ file' = "empty")
       /\ (file # "absent" /\ file' = "absent") =>
             (cpc = "finally" /\ syncResult # "none" /\ polls >= 1)
       /\ (file = "absent" /\ cpc # "init") => file' = "absent"
       /\ polls' # polls => (file # "absent" /\ lastPoll'.file = file)]_vars

C17_Witness ==
    /\ file = "absent"
    /\ cpc = "returned"
    /\ process = "Popen"
    /\ lastPoll.file = "empty"
    /\ polls = MaxWait

\* C18: a destroy() that requests graceful termination sends one graceful
\* signal, CTRL_C_EVENT on Windows and SIGTERM elsewhere, never both and never
\* the other platform's.
C18_GracefulSignalByPlatform ==
    /\ [](\A i \in 1..Len(sent) :
             sent[i] \in GracefulSignals =>
                 sent[i] = (IF platform = "Windows" THEN "CTRL_C_EVENT" ELSE "SIGTERM"))
    /\ [][/\ (dpc = "checked" /\ dpc' = "waiting") =>
                /\ Len(sent') = Len(sent) + 1
                /\ sent'[Len(sent')] \in GracefulSignals
          /\ (dpc # "checked" /\ sent' # sent) =>
                (Len(sent') = Len(sent) + 1 /\ sent'[Len(sent')] \notin GracefulSignals)]_vars

C18_Witness ==
    /\ platform = "Windows"
    /\ sent = <<"CTRL_C_EVENT", "SIGKILL", "CTRL_C_EVENT">>

\* C19: a kill is sent only by a destroy() that sent its graceful signal first
\* and whose grace wait timed out with the process still running; a process
\* that has exited during the wait is not killed.
C19_KillOnlyAfterGraceTimeout ==
    /\ [](\A i \in 1..Len(sent) :
             sent[i] = "SIGKILL" => (i > 1 /\ sent[i - 1] \in GracefulSignals))
    /\ [][/\ (Len(sent') > Len(sent) /\ sent'[Len(sent')] = "SIGKILL") =>
                /\ dpc = "waiting"
                /\ procState = "running"
                /\ waits' = waits + 1
          /\ (dpc = "waiting" /\ procState = "exited") =>
                (sent' = sent /\ procState' = "exited")]_vars

C19_Witness ==
    /\ ~honors
    /\ lastDestroy = "graceful"
    /\ procState = "exited"
    /\ Len(sent) = 1
    /\ waits = 1

\* C20: once a destroy() has signalled the owned process and the process is
\* observed as exited, a further destroy() with no handle outstanding is a
\* no-op: no signal, no wait, no kill, no error, the proxy as it was.
C20_SecondDestroyNoop ==
    [][(/\ procState = "exited"
        /\ Len(sent) >= 1
        /\ dpc \in {"idle", "checked"}
        /\ handles = {}
        /\ destroyVars' # destroyVars) =>
           /\ sent' = sent
           /\ waits' = waits
           /\ lastDestroy' \in {"pending", "noop"}
           /\ dpc' \in {"checked", "idle"}
           /\ UNCHANGED <<process, procState, port, handles, cpc>>]_vars

C20_Witness ==
    /\ destroys = 2
    /\ lastDestroy = "noop"
    /\ dpc = "idle"
    /\ procState = "exited"
    /\ Len(sent) >= 1
    /\ handles = {}

TypeOK ==
    /\ cpc \in {"init", "touched", "launched", "sync", "finally", "returned", "raised"}
    /\ portArg \in Ports \cup {NoPort}
    /\ file \in {"absent", "empty", "nonempty"}
    /\ process \in {None, "Popen"}
    /\ procState \in {"none", "running", "killed", "exited"}
    /\ port \in Ports \cup {NoPort}
    /\ polls \in 0..MaxWait
    /\ handles \subseteq HandleIds
    /\ dpc \in {"idle", "checked", "waiting"}
    /\ destroys \in 0..MaxDestroy
    /\ Len(sent) <= 2 * MaxDestroy
    /\ waits <= MaxDestroy

====
